---------------------------- MODULE Spec2Model ----------------------------
(***************************************************************************)
(* Wav2Vec2Masker (src/src/fairseq2/models/wav2vec2/masker.py): the        *)
(* constructor, the forward pass and apply_temporal_mask.                  *)
(*                                                                         *)
(* Tensors are functions over 1-based indices: a batch seqs[n][s][m] with  *)
(* n \in 1..BatchSize, s \in 1..SeqLen, m \in 1..model_dim; a boolean mask *)
(* mask[n][s].  Position s of row n is padding iff s > seq_lens[n].        *)
(* Floating-point values are integers: 0 is 0.0, a probability p stands    *)
(* for p / ProbScale.  Optional values are sequences: None is << >> and a  *)
(* present value v is << v >>.                                             *)
(***************************************************************************)
EXTENDS Integers, Sequences, FiniteSets, TLC

\* ------------------------------------------------------------- bounds
BatchSize == 2
SeqLen == 4
MaxModelDim == 3
MaxSpanLen == 2
ProbScale == 2

\* The two device streams of the interleaved specification.
Streams == {1, 2}

\* ------------------------------------------------------------ helpers
None == << >>
Some(v) == << v >>
IsNone(o) == o = << >>
Value(o) == o[1]

Min(a, b) == IF a <= b THEN a ELSE b
Max(a, b) == IF a >= b THEN a ELSE b

\* Probabilities a caller may pass: -1/ProbScale .. 1.
ProbVals == -1 .. ProbScale

\* nn.init.uniform_ draws every element from [0, 1); 0 is 0.0.
EmbedVals == {0, 1}

VARIABLES
    self,           \* the masker object's attributes (constructed = FALSE: no object)
    ctor,           \* the last constructor call: its arguments and its outcome
    pc,             \* pc[c]: where forward call c stands
    seqs,           \* seqs[c]: the caller's batch tensor, mutated in place
    seq_lens,       \* seq_lens[c]: the caller's Optional length array
    input,          \* input[c]: the batch and lengths as they were passed (history)
    temporal_mask,  \* temporal_mask[c]: Optional result of the first compute_mask
    spatial_mask,   \* spatial_mask[c]: Optional result of the second compute_mask
    requests,       \* requests[c]: the compute_mask calls made by forward call c
    ret,            \* ret[c]: Optional (seqs, temporal_mask) returned by call c
    x,              \* apply_temporal_mask: the feature batch argument
    mask,           \* apply_temporal_mask: the temporal mask argument
    result          \* apply_temporal_mask: Optional outcome

vars == << self, ctor, pc, seqs, seq_lens, input, temporal_mask, spatial_mask,
           requests, ret, x, mask, result >>

maskerVars == << self, ctor >>
callVars == << pc, seqs, seq_lens, input, temporal_mask, spatial_mask, requests, ret >>
applyVars == << x, mask, result >>


\* ------------------------------------------------- the masker object
NoMasker ==
    [constructed |-> FALSE, model_dim |-> 0,
     temporal_span_len |-> 0, max_temporal_mask_prob |-> 0,
     temporal_mask_embed |-> << >>,
     spatial_span_len |-> 0, max_spatial_mask_prob |-> 0]

NoCtor == [called |-> FALSE, model_dim |-> 0, max_temporal_mask_prob |-> 0,
           outcome |-> "none"]

\* The constructor's check: `if max_temporal_mask_prob == 0.0: raise ValueError`.
RejectsProbNever(p) == FALSE
RejectsProb(p) == p = 0

\* torch.empty((model_dim,)) followed by reset_parameters(): a vector of
\* length model_dim, each element drawn by nn.init.uniform_.
Embeddings(model_dim) == [1 .. model_dim -> EmbedVals]

\* Wav2Vec2Masker.__init__
Construct ==
    /\ ~self.constructed
    /\ \E model_dim \in 1 .. MaxModelDim,
          tsl \in 1 .. MaxSpanLen, tp \in ProbVals,
          ssl \in 1 .. MaxSpanLen, sp \in ProbVals :
          IF RejectsProb(tp)
          THEN /\ ctor' = [called |-> TRUE, model_dim |-> model_dim,
                           max_temporal_mask_prob |-> tp, outcome |-> "ValueError"]
               /\ self' = self
          ELSE /\ ctor' = [called |-> TRUE, model_dim |-> model_dim,
                           max_temporal_mask_prob |-> tp, outcome |-> "ok"]
               /\ \E e \in Embeddings(model_dim) :
                     self' = [constructed |-> TRUE, model_dim |-> model_dim,
                              temporal_span_len |-> tsl,
                              max_temporal_mask_prob |-> tp,
                              temporal_mask_embed |-> e,
                              spatial_span_len |-> ssl,
                              max_spatial_mask_prob |-> sp]
    /\ UNCHANGED << callVars, applyVars >>

\* ------------------------------------------- the mask-span sampler
\* compute_mask(shape, span_len, max_mask_prob, row_lens, min_num_spans):
\* its contract.  A row of valid length len admits the span starts
\* 1 .. len - span_len + 1; every span is span_len contiguous positions
\* inside the valid length; the row's mask is the union of the spans.
SpanStarts(len, span_len) == 1 .. (len - span_len + 1)

\* The number of spans of a row: at least min_num_spans when the row admits
\* that many, at most what max_mask_prob allows (never below the minimum).
MinSpans(len, span_len, min_num_spans) ==
    Min(min_num_spans, Cardinality(SpanStarts(len, span_len)))

MaxSpans(len, span_len, max_mask_prob, min_num_spans) ==
    Max(MinSpans(len, span_len, min_num_spans),
        Min(Cardinality(SpanStarts(len, span_len)),
            IF max_mask_prob > 0
            THEN (max_mask_prob * len) \div (ProbScale * span_len)
            ELSE 0))

\* The boolean row of width cols covered by the spans starting in T.
SpanUnion(cols, T, span_len) ==
    [s \in 1 .. cols |-> \E t \in T : t <= s /\ s < t + span_len]

RowMasks(cols, len, span_len, max_mask_prob, min_num_spans) ==
    { SpanUnion(cols, T, span_len) :
        T \in { U \in SUBSET SpanStarts(len, span_len) :
                  /\ Cardinality(U) >= MinSpans(len, span_len, min_num_spans)
                  /\ Cardinality(U) <= MaxSpans(len, span_len, max_mask_prob,
                                                min_num_spans) } }

\* The valid length of row n under a request.
RowLen(req, n) ==
    IF IsNone(req.row_lens) THEN req.shape[2] ELSE Value(req.row_lens)[n]

\* A row too short for even one span.
Unmaskable(req) ==
    \E n \in 1 .. req.shape[1] : RowLen(req, n) < req.span_len

\* Every outcome of one compute_mask call: a mask of the requested shape
\* (zero-masked on unmaskable rows), or None when some row is unmaskable.
ComputeMask(req) ==
    LET rows == UNION { RowMasks(req.shape[2], RowLen(req, n), req.span_len,
                                 req.max_mask_prob, req.min_num_spans) :
                          n \in 1 .. req.shape[1] }
    IN  { Some(m) :
            m \in { f \in [1 .. req.shape[1] -> rows] :
                      \A n \in 1 .. req.shape[1] :
                         f[n] \in RowMasks(req.shape[2], RowLen(req, n),
                                           req.span_len, req.max_mask_prob,
                                           req.min_num_spans) } }
        \cup (IF Unmaskable(req) THEN {None} ELSE {})

\* ------------------------------------------------------ tensor operations
\* seqs.shape of a batch (N, S, M).
Shape(t) ==
    << Cardinality(DOMAIN t), Cardinality(DOMAIN t[1]), Cardinality(DOMAIN t[1][1]) >>

\* seqs[temporal_mask] = self.temporal_mask_embed
TemporalOverwriteNothing(t, m, embed) == t
TemporalOverwrite(t, m, embed) ==
    [n \in DOMAIN t |-> [s \in DOMAIN t[n] |-> IF m[n][s] THEN embed ELSE t[n][s]]]

\* spatial_mask.unsqueeze(1).expand(-1, seq_len, -1)
Expand(sm, seq_len) == [n \in DOMAIN sm |-> [s \in 1 .. seq_len |-> sm[n]]]

\* seqs[spatial_mask] = 0.0
SpatialZero(t, em) ==
    [n \in DOMAIN t |->
       [s \in DOMAIN t[n] |->
          [m \in DOMAIN t[n][s] |-> IF em[n][s][m] THEN 0 ELSE t[n][s][m]]]]

\* `if self.max_spatial_mask_prob > 0.0`
SpatialEnabledAtZero(p) == p >= 0
SpatialEnabled(p) == p > 0

\* ---------------------------------------------------------- the callers
\* A batch whose elements are pairwise different and different from 0 and
\* from every embedding value, and the batch of zeros.
DistinctBatch(M) ==
    [n \in 1 .. BatchSize |->
       [s \in 1 .. SeqLen |->
          [m \in 1 .. M |-> 10 + ((n - 1) * SeqLen + (s - 1)) * M + m]]]

ConstBatch(M, v) ==
    [n \in 1 .. BatchSize |-> [s \in 1 .. SeqLen |-> [m \in 1 .. M |-> v]]]

InputBatches(M) == { DistinctBatch(M), ConstBatch(M, 0) }

\* seq_lens: absent, or one valid length 0 .. S per row.
SeqLensChoices == { None } \cup { Some(l) : l \in [1 .. BatchSize -> 0 .. SeqLen] }

NoArgs == [seqs |-> << >>, seq_lens |-> None]

\* ------------------------------------------------ Wav2Vec2Masker.forward
\* The first compute_mask call: shape (batch_size, seq_len), the temporal
\* span length and probability, row_lens = seq_lens, min_num_spans = 2.
TemporalRequestNoLens(c) ==
    [shape |-> << Shape(seqs[c])[1], Shape(seqs[c])[2] >>,
     span_len |-> self.temporal_span_len,
     max_mask_prob |-> self.max_temporal_mask_prob,
     row_lens |-> None,
     min_num_spans |-> 2]

TemporalRequestNoMin(c) ==
    [shape |-> << Shape(seqs[c])[1], Shape(seqs[c])[2] >>,
     span_len |-> self.temporal_span_len,
     max_mask_prob |-> self.max_temporal_mask_prob,
     row_lens |-> seq_lens[c],
     min_num_spans |-> 0]

TemporalRequest(c) ==
    [shape |-> << Shape(seqs[c])[1], Shape(seqs[c])[2] >>,
     span_len |-> self.temporal_span_len,
     max_mask_prob |-> self.max_temporal_mask_prob,
     row_lens |-> seq_lens[c],
     min_num_spans |-> 2]

\* The second compute_mask call: shape (batch_size, model_dim), the spatial
\* span length and probability, no row_lens, min_num_spans = 2.
SpatialRequest(c) ==
    [shape |-> << Shape(seqs[c])[1], Shape(seqs[c])[3] >>,
     span_len |-> self.spatial_span_len,
     max_mask_prob |-> self.max_spatial_mask_prob,
     row_lens |-> None,
     min_num_spans |-> 2]

\* A caller invokes forward(seqs, seq_lens) on the constructed masker with a
\* batch of its own whose last dimension is model_dim.
ForwardCall(c) ==
    /\ self.constructed
    /\ pc[c] = "idle"
    /\ \E b \in InputBatches(self.model_dim), l \in SeqLensChoices :
          /\ seqs' = [seqs EXCEPT ![c] = b]
          /\ seq_lens' = [seq_lens EXCEPT ![c] = l]
          /\ input' = [input EXCEPT ![c] = [seqs |-> b, seq_lens |-> l]]
    /\ temporal_mask' = [temporal_mask EXCEPT ![c] = None]
    /\ spatial_mask' = [spatial_mask EXCEPT ![c] = None]
    /\ requests' = [requests EXCEPT ![c] = << >>]
    /\ ret' = [ret EXCEPT ![c] = None]
    /\ pc' = [pc EXCEPT ![c] = "compute_temporal"]
    /\ UNCHANGED << maskerVars, applyVars >>

\* temporal_mask = compute_mask(...)
ComputeTemporalMask(c) ==
    /\ pc[c] = "compute_temporal"
    /\ requests' = [requests EXCEPT ![c] = Append(@, TemporalRequest(c))]
    /\ \E r \in ComputeMask(TemporalRequest(c)) :
          temporal_mask' = [temporal_mask EXCEPT ![c] = r]
    /\ pc' = [pc EXCEPT ![c] = "apply_temporal"]
    /\ UNCHANGED << maskerVars, seqs, seq_lens, input, spatial_mask, ret, applyVars >>

\* assert temporal_mask is not None; seqs[temporal_mask] = self.temporal_mask_embed
ApplyTemporalResetsEmbed(c) ==
    /\ pc[c] = "apply_temporal"
    /\ \/ /\ IsNone(temporal_mask[c])
          /\ pc' = [pc EXCEPT ![c] = "AssertionError"]
          /\ seqs' = seqs
          /\ self' = self
       \/ /\ ~IsNone(temporal_mask[c])
          /\ seqs' = [seqs EXCEPT ![c] =
                        TemporalOverwrite(@, Value(temporal_mask[c]),
                                          self.temporal_mask_embed)]
          /\ self' = [self EXCEPT !.temporal_mask_embed =
                        [m \in DOMAIN @ |-> 0]]
          /\ pc' = [pc EXCEPT ![c] = "spatial_check"]
    /\ UNCHANGED << ctor, seq_lens, input, temporal_mask, spatial_mask,
                    requests, ret, applyVars >>

ApplyTemporal(c) ==
    /\ pc[c] = "apply_temporal"
    /\ \/ /\ IsNone(temporal_mask[c])
          /\ pc' = [pc EXCEPT ![c] = "AssertionError"]
          /\ seqs' = seqs
       \/ /\ ~IsNone(temporal_mask[c])
          /\ seqs' = [seqs EXCEPT ![c] =
                        TemporalOverwrite(@, Value(temporal_mask[c]),
                                          self.temporal_mask_embed)]
          /\ pc' = [pc EXCEPT ![c] = "spatial_check"]
    /\ UNCHANGED << maskerVars, seq_lens, input, temporal_mask, spatial_mask,
                    requests, ret, applyVars >>

\* if self.max_spatial_mask_prob > 0.0: spatial_mask = compute_mask(...)
ComputeSpatialMask(c) ==
    /\ pc[c] = "spatial_check"
    /\ SpatialEnabled(self.max_spatial_mask_prob)
    /\ requests' = [requests EXCEPT ![c] = Append(@, SpatialRequest(c))]
    /\ \E r \in ComputeMask(SpatialRequest(c)) :
          spatial_mask' = [spatial_mask EXCEPT ![c] = r]
    /\ pc' = [pc EXCEPT ![c] = "apply_spatial"]
    /\ UNCHANGED << maskerVars, seqs, seq_lens, input, temporal_mask, ret, applyVars >>

\* assert spatial_mask is not None; expand over the sequence axis;
\* seqs[spatial_mask] = 0.0
ApplySpatialSkipAssert(c) ==
    /\ pc[c] = "apply_spatial"
    /\ \/ /\ IsNone(spatial_mask[c])
          /\ pc' = [pc EXCEPT ![c] = "return"]
          /\ seqs' = seqs
       \/ /\ ~IsNone(spatial_mask[c])
          /\ seqs' = [seqs EXCEPT ![c] =
                        SpatialZero(@, Expand(Value(spatial_mask[c]),
                                              Shape(seqs[c])[2]))]
          /\ pc' = [pc EXCEPT ![c] = "return"]
    /\ UNCHANGED << maskerVars, seq_lens, input, temporal_mask, spatial_mask,
                    requests, ret, applyVars >>

ApplySpatialBeforeTemporal(c) ==
    /\ pc[c] = "apply_spatial"
    /\ \/ /\ IsNone(spatial_mask[c])
          /\ pc' = [pc EXCEPT ![c] = "AssertionError"]
          /\ seqs' = seqs
       \/ /\ ~IsNone(spatial_mask[c])
          /\ seqs' = [seqs EXCEPT ![c] =
                        TemporalOverwrite(
                           SpatialZero(@, Expand(Value(spatial_mask[c]),
                                                 Shape(seqs[c])[2])),
                           Value(temporal_mask[c]), self.temporal_mask_embed)]
          /\ pc' = [pc EXCEPT ![c] = "return"]
    /\ UNCHANGED << maskerVars, seq_lens, input, temporal_mask, spatial_mask,
                    requests, ret, applyVars >>

ApplySpatial(c) ==
    /\ pc[c] = "apply_spatial"
    /\ \/ /\ IsNone(spatial_mask[c])
          /\ pc' = [pc EXCEPT ![c] = "AssertionError"]
          /\ seqs' = seqs
       \/ /\ ~IsNone(spatial_mask[c])
          /\ seqs' = [seqs EXCEPT ![c] =
                        SpatialZero(@, Expand(Value(spatial_mask[c]),
                                              Shape(seqs[c])[2]))]
          /\ pc' = [pc EXCEPT ![c] = "return"]
    /\ UNCHANGED << maskerVars, seq_lens, input, temporal_mask, spatial_mask,
                    requests, ret, applyVars >>

\* return seqs, temporal_mask: the caller's own tensor (by reference, the
\* tensor of call c) and the temporal mask.
Return(c) ==
    /\ \/ pc[c] = "return"
       \/ /\ pc[c] = "spatial_check"
          /\ ~SpatialEnabled(self.max_spatial_mask_prob)
    /\ ret' = [ret EXCEPT ![c] =
                 Some([seqs |-> c, temporal_mask |-> Value(temporal_mask[c])])]
    /\ pc' = [pc EXCEPT ![c] = "returned"]
    /\ UNCHANGED << maskerVars, seqs, seq_lens, input, temporal_mask, spatial_mask,
                    requests, applyVars >>

\* The caller is done with a finished call (returned or raised) and drops its
\* batch and results; its next forward call takes a batch of its own.
Discard(c) ==
    /\ pc[c] \in {"returned", "AssertionError"}
    /\ pc' = [pc EXCEPT ![c] = "idle"]
    /\ seqs' = [seqs EXCEPT ![c] = << >>]
    /\ seq_lens' = [seq_lens EXCEPT ![c] = None]
    /\ input' = [input EXCEPT ![c] = NoArgs]
    /\ temporal_mask' = [temporal_mask EXCEPT ![c] = None]
    /\ spatial_mask' = [spatial_mask EXCEPT ![c] = None]
    /\ requests' = [requests EXCEPT ![c] = << >>]
    /\ ret' = [ret EXCEPT ![c] = None]
    /\ UNCHANGED << maskerVars, applyVars >>

Forward(c) ==
    \/ ForwardCall(c)
    \/ ComputeTemporalMask(c)
    \/ ApplyTemporal(c)
    \/ ComputeSpatialMask(c)
    \/ ApplySpatial(c)
    \/ Return(c)
    \/ Discard(c)

\* ------------------------------------------------- apply_temporal_mask
\* The masked vectors of positions 1 .. s of one row, in position order.
RECURSIVE SelectRowReversed(_, _, _)
SelectRowReversed(xr, mr, s) ==
    IF s = 0 THEN << >>
    ELSE IF mr[s] THEN << xr[s] >> \o SelectRowReversed(xr, mr, s - 1)
         ELSE SelectRowReversed(xr, mr, s - 1)

RECURSIVE SelectRow(_, _, _)
SelectRow(xr, mr, s) ==
    IF s = 0 THEN << >>
    ELSE IF mr[s] THEN Append(SelectRow(xr, mr, s - 1), xr[s])
         ELSE SelectRow(xr, mr, s - 1)

\* x[temporal_mask]: the masked vectors of rows 1 .. n in row-major order,
\* shape (K, M).
RECURSIVE BoolIndex(_, _, _)
BoolIndex(t, m, n) ==
    IF n = 0 THEN << >>
    ELSE BoolIndex(t, m, n - 1) \o SelectRow(t[n], m[n], Cardinality(DOMAIN t[n]))

\* flat.unflatten(0, (rows, -1)): fails unless rows divides K; row n of the
\* result is the n-th block of K / rows vectors.
Unflatten(flat, rows) ==
    IF Len(flat) % rows # 0
    THEN [error |-> "RuntimeError", value |-> << >>]
    ELSE [error |-> "none",
          value |-> [n \in 1 .. rows |->
                       SubSeq(flat, (n - 1) * (Len(flat) \div rows) + 1,
                              n * (Len(flat) \div rows))]]

\* x[temporal_mask].unflatten(0, (x.size(0), -1))
ApplyTemporalMask(t, m) ==
    Unflatten(BoolIndex(t, m, Cardinality(DOMAIN t)), Cardinality(DOMAIN t))

\* A caller gathers the masked vectors of a batch.
Apply ==
    /\ IsNone(result)
    /\ result' = Some(ApplyTemporalMask(x, mask))
    /\ UNCHANGED << maskerVars, callVars, x, mask >>

\* -------------------------------------------------------- specifications
Idle == [c \in Streams |-> "idle"]

InitCalls ==
    /\ pc = Idle
    /\ seqs = [c \in Streams |-> << >>]
    /\ seq_lens = [c \in Streams |-> None]
    /\ input = [c \in Streams |-> NoArgs]
    /\ temporal_mask = [c \in Streams |-> None]
    /\ spatial_mask = [c \in Streams |-> None]
    /\ requests = [c \in Streams |-> << >>]
    /\ ret = [c \in Streams |-> None]

\* One masker, one caller issuing forward calls one after another.
Init ==
    /\ self = NoMasker
    /\ ctor = NoCtor
    /\ InitCalls
    /\ x = << >>
    /\ mask = << >>
    /\ result = None

Next == Construct \/ Forward(1)

Spec == Init /\ [][Next]_vars

\* One masker shared by two streams whose forward calls interleave step by
\* step, each on a batch of its own.  The hyperparameters and inputs are a
\* subset of Spec's: the longest temporal span, one feature with a spatial
\* span of length 1, the batch of distinct values, and seq_lens absent or equal
\* for all rows.
InterleavedMasker ==
    /\ self.temporal_span_len = MaxSpanLen
    /\ self.spatial_span_len = 1
    /\ self.model_dim = 1
    /\ self.max_spatial_mask_prob \in {0, 1}

InterleavedInputs(c) ==
    /\ pc[c] = "compute_temporal" =>
          /\ seqs[c] = DistinctBatch(self.model_dim)
          /\ \/ IsNone(seq_lens[c])
             \/ \E k \in MaxSpanLen .. SeqLen :
                   seq_lens[c] = Some([n \in 1 .. BatchSize |-> k])

NextInterleaved ==
    \/ Construct /\ InterleavedMasker'
    \/ \E c \in Streams : Forward(c) /\ InterleavedInputs(c)'

SpecInterleaved == Init /\ [][NextInterleaved]_vars

\* apply_temporal_mask on every batch and every boolean mask of the bounds.
InitApply ==
    /\ self = NoMasker
    /\ ctor = NoCtor
    /\ InitCalls
    /\ x \in UNION { InputBatches(M) : M \in 1 .. MaxModelDim }
    /\ mask \in [1 .. BatchSize -> [1 .. SeqLen -> BOOLEAN]]
    /\ result = None

NextApply == Apply

SpecApply == InitApply /\ [][NextApply]_vars

\* ------------------------------------------------------------- claims
Rows(c) == 1 .. Shape(seqs[c])[1]
Cols(c) == 1 .. Shape(seqs[c])[2]
Feats(c) == 1 .. Shape(seqs[c])[3]

TMask(c) == Value(temporal_mask[c])
SMask(c) == Value(spatial_mask[c])

\* The valid length of row n of call c as the caller passed it.
ValidLen(c, n) ==
    IF IsNone(input[c].seq_lens) THEN Shape(input[c].seqs)[2]
    ELSE Value(input[c].seq_lens)[n]

\* The number of maximal contiguous True runs of a boolean row.
Runs(row) ==
    Cardinality({ s \in DOMAIN row : row[s] /\ (s = 1 \/ ~row[s - 1]) })

\* C1: constructing with max_temporal_mask_prob = 0 ends in ValueError and
\* leaves no masker (no embedding allocated); constructing with a probability
\* in (0, 1] succeeds and the embedding has length model_dim.
C1_ConstructZeroRejected ==
    ctor.called =>
       /\ ctor.max_temporal_mask_prob = 0 =>
             /\ ctor.outcome = "ValueError"
             /\ self = NoMasker
       /\ ctor.max_temporal_mask_prob \in 1 .. ProbScale =>
             /\ ctor.outcome = "ok"
             /\ self.constructed
             /\ self.model_dim = ctor.model_dim
             /\ self.max_temporal_mask_prob = ctor.max_temporal_mask_prob
             /\ DOMAIN self.temporal_mask_embed = 1 .. ctor.model_dim

C1_Witness ==
    /\ ctor.called
    /\ ctor.max_temporal_mask_prob = 0
    /\ ctor.outcome = "ValueError"

\* C2: no constructed masker has max_temporal_mask_prob <= 0 (every
\* non-positive probability is rejected at construction).
C2_NoNonPositiveProb ==
    self.constructed => self.max_temporal_mask_prob > 0

\* C3 as stated: after every forward call that returns, every temporally
\* masked position holds the whole embedding vector.
C3_MaskedIsEmbedding ==
    \A c \in Streams :
       pc[c] = "returned" =>
          \A n \in Rows(c), s \in Cols(c) :
             TMask(c)[n][s] => seqs[c][n][s] = self.temporal_mask_embed

\* C3 amended: after every forward call that returns, every temporally
\* masked position holds the embedding in every feature the call's spatial
\* mask does not select (in every feature when no spatial mask was drawn).
C3_MaskedIsEmbeddingOutsideSpatial ==
    \A c \in Streams :
       pc[c] = "returned" =>
          \A n \in Rows(c), s \in Cols(c), m \in Feats(c) :
             (TMask(c)[n][s] /\ (IsNone(spatial_mask[c]) \/ ~SMask(c)[n][m]))
                => seqs[c][n][s][m] = self.temporal_mask_embed[m]

C3_Witness ==
    \E c \in Streams :
       /\ pc[c] = "returned"
       /\ ~IsNone(spatial_mask[c])
       /\ \E n \in Rows(c), s \in Cols(c), m \in Feats(c) :
             /\ TMask(c)[n][s]
             /\ ~SMask(c)[n][m]
             /\ input[c].seqs[n][s][m] # self.temporal_mask_embed[m]
             /\ \E k \in Feats(c) : SMask(c)[n][k]

\* C4: with max_spatial_mask_prob = 0 a forward call asks the sampler once,
\* for the temporal mask of shape (N, S), draws no spatial mask, and leaves
\* every element outside the temporally masked positions as it was passed.
C4_SpatialDisabledFrame ==
    \A c \in Streams :
       (self.constructed /\ self.max_spatial_mask_prob = 0 /\ pc[c] # "idle") =>
          /\ Len(requests[c]) <= 1
          /\ IsNone(spatial_mask[c])
          /\ pc[c] \in {"returned", "AssertionError"} =>
                /\ Len(requests[c]) = 1
                /\ requests[c][1].shape = << Shape(seqs[c])[1], Shape(seqs[c])[2] >>
                /\ \A n \in Rows(c), s \in Cols(c) :
                      (IsNone(temporal_mask[c]) \/ ~TMask(c)[n][s])
                         => seqs[c][n][s] = input[c].seqs[n][s]

C4_Witness ==
    \E c \in Streams :
       /\ self.max_spatial_mask_prob = 0
       /\ pc[c] = "returned"
       /\ input[c].seqs = DistinctBatch(self.model_dim)
       /\ \E n \in Rows(c), s, u \in Cols(c) :
             /\ TMask(c)[n][s]
             /\ seqs[c][n][s] # input[c].seqs[n][s]
             /\ ~TMask(c)[n][u]

\* C5: given seq_lens, the temporal mask request carries them as row_lens and
\* the returned temporal mask is False at every padding position, whose
\* elements are therefore never the embedding's (they keep their input value,
\* or are zeroed by the spatial mask); the spatial request carries no row_lens.
C5_PaddingNeverMasked ==
    \A c \in Streams :
       ~IsNone(input[c].seq_lens) =>
          /\ Len(requests[c]) >= 1 => requests[c][1].row_lens = input[c].seq_lens
          /\ Len(requests[c]) = 2 => IsNone(requests[c][2].row_lens)
          /\ pc[c] = "returned" =>
                \A n \in Rows(c), s \in Cols(c) :
                   s > ValidLen(c, n) =>
                      /\ ~TMask(c)[n][s]
                      /\ \A m \in Feats(c) :
                            seqs[c][n][s][m] =
                               IF ~IsNone(spatial_mask[c]) /\ SMask(c)[n][m]
                               THEN 0 ELSE input[c].seqs[n][s][m]

C5_Witness ==
    \E c \in Streams :
       /\ pc[c] = "returned"
       /\ ~IsNone(input[c].seq_lens)
       /\ Len(requests[c]) = 2
       /\ \E n \in Rows(c) :
             /\ ValidLen(c, n) < Shape(seqs[c])[2]
             /\ \E s \in Cols(c) : TMask(c)[n][s]

\* C6 as stated: every row whose valid length is >= 2 x temporal_span_len has
\* at least 2 contiguous masked runs in the returned temporal mask.
C6_TwoRuns ==
    \A c \in Streams :
       pc[c] = "returned" =>
          \A n \in Rows(c) :
             ValidLen(c, n) >= 2 * self.temporal_span_len
                => Runs(TMask(c)[n]) >= 2

\* C6 amended: every row whose valid length is >= 2 x temporal_span_len has
\* at least 1 contiguous masked run in the returned temporal mask (the spans
\* the sampler places may overlap or abut and merge into one run).
C6_OneRun ==
    \A c \in Streams :
       pc[c] = "returned" =>
          \A n \in Rows(c) :
             ValidLen(c, n) >= 2 * self.temporal_span_len
                => Runs(TMask(c)[n]) >= 1

C6_Witness ==
    \E c \in Streams :
       /\ pc[c] = "returned"
       /\ \E n, k \in Rows(c) :
             /\ ValidLen(c, n) >= 2 * self.temporal_span_len
             /\ Runs(TMask(c)[n]) = 1
             /\ ValidLen(c, k) >= 2 * self.temporal_span_len
             /\ Runs(TMask(c)[k]) = 2

\* The position of the i-th True entry of a boolean row.
KthMasked(mr, i) ==
    CHOOSE s \in DOMAIN mr :
       mr[s] /\ Cardinality({ u \in 1 .. s : mr[u] }) = i

Count(mr) == Cardinality({ s \in DOMAIN mr : mr[s] })

\* Row n of the result is exactly row n's masked vectors in position order.
RowPreserved(n) ==
    /\ Len(Value(result).value[n]) = Count(mask[n])
    /\ \A i \in 1 .. Count(mask[n]) :
          Value(result).value[n][i] = x[n][KthMasked(mask[n], i)]

\* C7 as stated: for every batch and every boolean mask, row n of
\* apply_temporal_mask(x, mask) is exactly row n's masked vectors in
\* increasing position order.
C7_RowsPreserved ==
    ~IsNone(result) =>
       /\ Value(result).error = "none"
       /\ \A n \in DOMAIN x : RowPreserved(n)

\* C7 amended: the same, for every mask with the same number of True
\* entries in every row.
C7_RowsPreservedEqualCounts ==
    (~IsNone(result) /\ \A n, k \in DOMAIN mask : Count(mask[n]) = Count(mask[k])) =>
       /\ Value(result).error = "none"
       /\ \A n \in DOMAIN x : RowPreserved(n)

C7_Witness ==
    /\ ~IsNone(result)
    /\ x = DistinctBatch(MaxModelDim)
    /\ \A n \in DOMAIN mask : Count(mask[n]) = 2
    /\ mask[1] # mask[2]

\* A step of forward call c.
InCall(c) ==
    pc[c] \in {"compute_temporal", "apply_temporal", "spatial_check",
               "apply_spatial", "return"}

\* C8: no step of any forward call, on any stream, changes the masker (its
\* embedding, which keeps length model_dim, and its hyperparameters), the
\* seq_lens argument of the call, or another call's batch.
C8_ForwardChangesOnlyItsBatch ==
    [][\A c \in Streams :
          (InCall(c) /\ pc'[c] # pc[c]) =>
             /\ self' = self
             /\ DOMAIN self'.temporal_mask_embed = 1 .. self.model_dim
             /\ seq_lens'[c] = input[c].seq_lens
             /\ seq_lens[c] = input[c].seq_lens
             /\ \A d \in Streams \ {c} : seqs'[d] = seqs[d]]_vars

C8_Witness ==
    /\ pc[1] = "returned"
    /\ pc[2] = "apply_spatial"
    /\ ~IsNone(seq_lens[1])
    /\ seqs[1] # input[1].seqs
    /\ seqs[2] # input[2].seqs
    /\ seqs[1] # seqs[2]

\* C9: with max_spatial_mask_prob > 0, after a forward call returns every
\* element is 0 where the spatial mask selects its feature, else the
\* embedding's where the temporal mask selects its position, else its input
\* value; the call returns the caller's own tensor and the temporal mask as
\* the sampler gave it.
C9_TemporalThenSpatial ==
    \A c \in Streams :
       (pc[c] = "returned" /\ self.max_spatial_mask_prob > 0) =>
          /\ ~IsNone(spatial_mask[c])
          /\ \A n \in Rows(c), s \in Cols(c), m \in Feats(c) :
                seqs[c][n][s][m] =
                   IF SMask(c)[n][m] THEN 0
                   ELSE IF TMask(c)[n][s] THEN self.temporal_mask_embed[m]
                   ELSE input[c].seqs[n][s][m]
          /\ ret[c] = Some([seqs |-> c, temporal_mask |-> TMask(c)])
          /\ DOMAIN TMask(c) = Rows(c)
          /\ \A n \in Rows(c) : DOMAIN TMask(c)[n] = Cols(c)

C9_Witness ==
    \E c \in Streams :
       /\ pc[c] = "returned"
       /\ self.max_spatial_mask_prob > 0
       /\ \E n \in Rows(c), s \in Cols(c), m \in Feats(c) :
             /\ TMask(c)[n][s]
             /\ SMask(c)[n][m]
             /\ self.temporal_mask_embed[m] # 0
             /\ ValidLen(c, n) < Shape(seqs[c])[2]

\* C10: a forward call never returns once the sampler gave None: it ends in
\* AssertionError with nothing returned; after a None temporal mask the batch
\* is as it was passed; after a None spatial mask the batch holds the temporal
\* overwrite and no spatial zeroing.
C10_NoneMaskAsserts ==
    \A c \in Streams :
       /\ pc[c] \in {"spatial_check", "apply_spatial", "return", "returned"}
             => ~IsNone(temporal_mask[c])
       /\ (pc[c] \in {"return", "returned"} /\ Len(requests[c]) = 2)
             => ~IsNone(spatial_mask[c])
       /\ pc[c] = "AssertionError" =>
             /\ IsNone(ret[c])
             /\ IF IsNone(temporal_mask[c])
                THEN /\ Len(requests[c]) = 1
                     /\ seqs[c] = input[c].seqs
                ELSE /\ Len(requests[c]) = 2
                     /\ self.max_spatial_mask_prob > 0
                     /\ IsNone(spatial_mask[c])
                     /\ \A n \in Rows(c), s \in Cols(c), m \in Feats(c) :
                           seqs[c][n][s][m] =
                              IF TMask(c)[n][s] THEN self.temporal_mask_embed[m]
                              ELSE input[c].seqs[n][s][m]

C10_Witness ==
    \E c \in Streams :
       /\ pc[c] = "AssertionError"
       /\ ~IsNone(temporal_mask[c])
       /\ IsNone(spatial_mask[c])
       /\ seqs[c] # input[c].seqs

=============================================================================
